---- MODULE Spec2Model ----
\* Model of common/train/trainer.py (Trainer.fit, state_dict, load_state_dict).
\* A fit call is a sequence of steps, one per call the Trainer makes into a
\* collaborator (callback event, evaluator method, batch_update); each such
\* call either returns or raises.
\* Beside it: the callback composite and the value store the Trainer is
\* constructed with, and opt/group_rmsprop_optimizer.py (GroupRMSprop.step).
EXTENDS Integers, Sequences, FiniteSets, TLC

\* ------------------------------------------------------------------ bounds
\* The epoch counter is capped at MaxEpoch: a fit call is made only when its
\* num_epochs iterations keep the counter within the cap.
MaxEpoch == 3
MaxBatches == 2
MaxValidateEvery == 2
\* The update calls made on a value store.
MaxUpdates == 3
\* The parameter groups of an optimizer and the step() calls made on it.
MaxGroups == 2
MaxSteps == 3

\* ------------------------------------------------------------ exceptions
StopFitIteration == "StopFitIteration"
None == "None"
\* What a call made inside the try block may raise: the stop signal or
\* some other exception.
LoopRaises == {StopFitIteration, "ErrorA"}
\* What on_exception / on_fit_end may raise: the stop signal or an
\* exception different from the one being handled.
HandlerRaises == {StopFitIteration, "ErrorB"}
Returns == "ok"
LoopOutcomes == {Returns} \cup LoopRaises
HandlerOutcomes == {Returns} \cup HandlerRaises

VARIABLES
    epoch,               \* Trainer.epoch
    training,            \* model.training
    pc,                  \* the statement of fit about to run
    num_epochs,          \* argument of fit
    validate_every,      \* argument of fit
    num_batches,         \* len(data_loader)
    i,                   \* iterations of the epoch loop started
    batch_num,           \* index of the next batch of the training phase
    original_train_mode, \* local of fit
    start_epoch,         \* local of fit
    output,              \* the FitOutput of the call
    exc,                 \* the exception in flight, or None
    result,              \* how the call ended, seen by the caller
    trace,               \* calls made by this fit call, in order
    handled,             \* the exceptions passed to on_exception
    raises,              \* <<call, exception>> of every raise of this call
    before,              \* the trainer as the caller saw it before the call
    collab,              \* the state of each collaborator the Trainer holds
    ckpt,                \* the mapping state_dict() returned, or NoCkpt
    synced,              \* "captured" / "loaded" / "loaded_fresh" (loaded
                         \* into a trainer as constructed) / "load_failed" by
                         \* the last state_dict / load_state_dict call, "no"
                         \* once the trainer has been used since
    role,                \* synced, as the running fit call found it
    dispatched,          \* ComposeCallback: <<child, outcome>> of each child
                         \* invoked for the on_epoch_start event dispatched last
    tracked_values,      \* ValueStore.tracked_values, in insertion order
    created,             \* TrackedValue objects constructed so far
    updates,             \* the update calls made on the value store, in order
    state,               \* GroupRMSprop.state
    param_groups,        \* GroupRMSprop.param_groups
    steps                \* for each step() call made on the optimizer, the
                         \* number of groups it went through

vars == <<epoch, training, pc, num_epochs, validate_every, num_batches, i,
          batch_num, original_train_mode, start_epoch, output, exc, result,
          trace, handled, raises, before, collab, ckpt, synced, role,
          dispatched, tracked_values, created, updates, state, param_groups,
          steps>>

NoOutput == [exception |-> None, train_tracked_values |-> FALSE,
             val_tracked_values |-> FALSE]
NoResult == [kind |-> "none", value |-> None]

\* The collaborators whose state the Trainer saves and restores, in the order
\* load_state_dict restores them.
CollabKeys == <<"model", "optimizer", "value_store", "train_evaluator",
                "val_evaluator", "callback">>
CollabSet == {CollabKeys[k] : k \in 1..Len(CollabKeys)}
\* A collaborator's state is abstracted to the last epoch the Trainer ran
\* with it (every collaborator takes part in every epoch); -1 is the state it
\* is constructed with.
FreshCollab == [k \in CollabSet |-> -1]
Touch(c, e) == [k \in CollabSet |-> e]
NoCkpt == [none |-> TRUE]

\* Trainer.__init__
TrainerInit ==
    /\ epoch = -1
    /\ training \in BOOLEAN
    /\ pc = "idle"
    /\ num_epochs = 0
    /\ validate_every = 1
    /\ num_batches = 0
    /\ i = 0
    /\ batch_num = 0
    /\ original_train_mode = training
    /\ start_epoch = -1
    /\ output = NoOutput
    /\ exc = None
    /\ result = NoResult
    /\ trace = <<>>
    /\ handled = <<>>
    /\ raises = <<>>
    /\ before = [epoch |-> -1, training |-> training]
    /\ collab = FreshCollab
    /\ ckpt = NoCkpt
    /\ synced = "no"
    /\ role = "no"

\* No on_epoch_start event has been dispatched through the composite.
ComposeInit == dispatched = <<>>

\* ValueStore(): no tracked value.
ValueStoreInit ==
    /\ tracked_values = <<>>
    /\ created = 0
    /\ updates = <<>>

\* GroupRMSprop.__init__ on g parameter groups: the state is empty and each
\* group's adjusted_lr is its lr (<<>>: lr as given; <<st>>: lr divided by
\* the average computed from the state st).
EmptyState == <<>>
GroupRMSpropInit(g) ==
    /\ state = EmptyState
    /\ param_groups = [k \in 1..g |-> [adjusted_lr |-> <<>>]]
    /\ steps = <<>>

Init ==
    /\ TrainerInit
    /\ ComposeInit
    /\ ValueStoreInit
    /\ GroupRMSpropInit(1)

value_store == <<tracked_values, created, updates>>
optimizer == <<state, param_groups, steps>>
aside == <<dispatched, value_store, optimizer>>
call == <<num_epochs, validate_every, num_batches, original_train_mode,
          start_epoch, before, ckpt, synced, role>>
frame == <<call, aside>>
locals == <<frame, collab>>

\* (mutant) a stop signal raised by a call is noted and acted on only when
\* the loop is over.
InvokeDeferred(name, arg, o, next) ==
    /\ trace' = Append(trace, <<name, arg>>)
    /\ IF o = Returns
       THEN /\ pc' = next
            /\ UNCHANGED <<exc, raises>>
       ELSE /\ pc' = IF o = StopFitIteration THEN next ELSE "except"
            /\ exc' = o
            /\ raises' = Append(raises, <<name, o>>)

\* A call into a collaborator made inside the try block: it is recorded, and
\* it returns (control goes on to `next`) or raises (control goes to the
\* except clauses).
Invoke(name, arg, o, next) ==
    /\ trace' = Append(trace, <<name, arg>>)
    /\ IF o = Returns
       THEN /\ pc' = next
            /\ UNCHANGED <<exc, raises>>
       ELSE /\ pc' = "except"
            /\ exc' = o
            /\ raises' = Append(raises, <<name, o>>)

\* fit, up to the try block's first call.
FitCall(n, ve, nb) ==
    /\ pc = "idle"
    /\ epoch + n <= MaxEpoch
    /\ role' = synced
    /\ synced' = "no"
    /\ num_epochs' = n
    /\ validate_every' = ve
    /\ num_batches' = nb
    /\ output' = NoOutput
    /\ original_train_mode' = training
    /\ start_epoch' = epoch
    /\ before' = [epoch |-> epoch, training |-> training]
    /\ i' = 0
    /\ batch_num' = 0
    /\ exc' = None
    /\ result' = NoResult
    /\ trace' = <<>>
    /\ handled' = <<>>
    /\ raises' = <<>>
    /\ pc' = "on_fit_start"
    /\ UNCHANGED <<epoch, training, collab, ckpt>>
    /\ UNCHANGED aside

OnFitStart(o) ==
    /\ pc = "on_fit_start"
    /\ Invoke("on_fit_start", num_epochs, o, "epoch_loop")
    /\ UNCHANGED <<epoch, training, i, batch_num, output, result, handled, locals>>

\* (mutant) the counter is not incremented in the loop.
EpochLoopNoIncrement ==
    /\ pc = "epoch_loop"
    /\ IF i < num_epochs
       THEN /\ i' = i + 1
            /\ pc' = "on_epoch_start"
       ELSE /\ pc' = "finally"
            /\ UNCHANGED i
    /\ UNCHANGED <<epoch, collab, training, batch_num, output, exc, result,
                   trace, handled, raises, frame>>

\* for i in range(num_epochs): self.epoch += 1
EpochLoop ==
    /\ pc = "epoch_loop"
    /\ IF i < num_epochs
       THEN /\ i' = i + 1
            /\ epoch' = epoch + 1
            /\ collab' = Touch(collab, epoch + 1)
            /\ pc' = "on_epoch_start"
       ELSE /\ pc' = "finally"
            /\ UNCHANGED <<i, epoch, collab>>
    /\ UNCHANGED <<training, batch_num, output, exc, result, trace, handled,
                   raises, frame>>

OnEpochStart(o) ==
    /\ pc = "on_epoch_start"
    /\ Invoke("on_epoch_start", epoch, o, "train")
    /\ UNCHANGED <<epoch, training, i, batch_num, output, result, handled, locals>>

\* (mutant) the training phase leaves the model's mode as it finds it.
TrainStartKeepsMode(o) ==
    /\ pc = "train"
    /\ Invoke("on_epoch_train_start", num_batches, o, "train_evaluator.epoch_start")
    /\ UNCHANGED <<epoch, training, i, batch_num, output, result, handled, locals>>

\* __train: self.model.train(); on_epoch_train_start
TrainStart(o) ==
    /\ pc = "train"
    /\ training' = TRUE
    /\ Invoke("on_epoch_train_start", num_batches, o, "train_evaluator.epoch_start")
    /\ UNCHANGED <<epoch, i, batch_num, output, result, handled, locals>>

TrainEvaluatorEpochStart(o) ==
    /\ pc = "train_evaluator.epoch_start"
    /\ Invoke("train_evaluator.epoch_start", epoch, o, "batch_loop")
    /\ batch_num' = 0
    /\ UNCHANGED <<epoch, training, i, output, result, handled, locals>>

\* (mutant) the last batch of the data loader is left out.
BatchLoopSkipsLast ==
    /\ pc = "batch_loop"
    /\ pc' = IF batch_num + 1 < num_batches THEN "on_train_batch_start"
             ELSE "train_evaluator.epoch_end"
    /\ UNCHANGED <<epoch, training, i, batch_num, output, exc, result, trace,
                   handled, raises, locals>>

\* for batch_num, batch in enumerate(data_loader)
BatchLoop ==
    /\ pc = "batch_loop"
    /\ pc' = IF batch_num < num_batches THEN "on_train_batch_start"
             ELSE "train_evaluator.epoch_end"
    /\ UNCHANGED <<epoch, training, i, batch_num, output, exc, result, trace,
                   handled, raises, locals>>

OnTrainBatchStart(o) ==
    /\ pc = "on_train_batch_start"
    /\ Invoke("on_train_batch_start", batch_num, o, "batch_update")
    /\ UNCHANGED <<epoch, training, i, batch_num, output, result, handled, locals>>

BatchUpdate(o) ==
    /\ pc = "batch_update"
    /\ Invoke("batch_update", batch_num, o, "evaluate_batch")
    /\ UNCHANGED <<epoch, training, i, batch_num, output, result, handled, locals>>

\* (mutant) the train evaluator is fed after on_train_batch_end.
EvaluateBatchAfterEnd(o) ==
    /\ pc = "evaluate_batch"
    /\ trace' = Append(Append(trace, <<"on_train_batch_end", batch_num>>),
                       <<"train_evaluator.evaluate_batch", batch_num>>)
    /\ pc' = "batch_loop"
    /\ batch_num' = batch_num + 1
    /\ UNCHANGED <<epoch, training, i, output, exc, raises, result, handled, locals>>

EvaluateBatch(o) ==
    /\ pc = "evaluate_batch"
    /\ Invoke("train_evaluator.evaluate_batch", batch_num, o, "on_train_batch_end")
    /\ UNCHANGED <<epoch, training, i, batch_num, output, result, handled, locals>>

OnTrainBatchEnd(o) ==
    /\ pc = "on_train_batch_end"
    /\ Invoke("on_train_batch_end", batch_num, o, "batch_loop")
    /\ batch_num' = IF o = Returns THEN batch_num + 1 ELSE batch_num
    /\ UNCHANGED <<epoch, training, i, output, result, handled, locals>>

TrainEvaluatorEpochEnd(o) ==
    /\ pc = "train_evaluator.epoch_end"
    /\ Invoke("train_evaluator.epoch_end", epoch, o, "on_epoch_train_end")
    /\ UNCHANGED <<epoch, training, i, batch_num, output, result, handled, locals>>

OnEpochTrainEnd(o) ==
    /\ pc = "on_epoch_train_end"
    /\ Invoke("on_epoch_train_end", epoch, o, "validate_check")
    /\ UNCHANGED <<epoch, training, i, batch_num, output, result, handled, locals>>

\* (mutant) validation is decided by the iteration's index within this call.
ValidateCheckByIndex ==
    /\ pc = "validate_check"
    /\ pc' = IF i % validate_every = 0 THEN "validate" ELSE "on_epoch_end"
    /\ UNCHANGED <<epoch, training, i, batch_num, output, exc, result, trace,
                   handled, raises, locals>>

\* if (self.epoch + 1) % validate_every == 0: self.__validate()
ValidateCheck ==
    /\ pc = "validate_check"
    /\ pc' = IF (epoch + 1) % validate_every = 0 THEN "validate" ELSE "on_epoch_end"
    /\ UNCHANGED <<epoch, training, i, batch_num, output, exc, result, trace,
                   handled, raises, locals>>

\* __validate: self.model.eval(); on_epoch_validation_start
ValidateStart(o) ==
    /\ pc = "validate"
    /\ training' = FALSE
    /\ Invoke("on_epoch_validation_start", epoch, o, "val_evaluator.epoch_start")
    /\ UNCHANGED <<epoch, i, batch_num, output, result, handled, locals>>

ValEvaluatorEpochStart(o) ==
    /\ pc = "val_evaluator.epoch_start"
    /\ Invoke("val_evaluator.epoch_start", epoch, o, "evaluate")
    /\ UNCHANGED <<epoch, training, i, batch_num, output, result, handled, locals>>

Evaluate(o) ==
    /\ pc = "evaluate"
    /\ Invoke("val_evaluator.evaluate", epoch, o, "val_evaluator.epoch_end")
    /\ UNCHANGED <<epoch, training, i, batch_num, output, result, handled, locals>>

ValEvaluatorEpochEnd(o) ==
    /\ pc = "val_evaluator.epoch_end"
    /\ Invoke("val_evaluator.epoch_end", epoch, o, "on_epoch_validation_end")
    /\ UNCHANGED <<epoch, training, i, batch_num, output, result, handled, locals>>

OnEpochValidationEnd(o) ==
    /\ pc = "on_epoch_validation_end"
    /\ Invoke("on_epoch_validation_end", epoch, o, "on_epoch_end")
    /\ UNCHANGED <<epoch, training, i, batch_num, output, result, handled, locals>>

OnEpochEnd(o) ==
    /\ pc = "on_epoch_end"
    /\ Invoke("on_epoch_end", epoch, o, "epoch_loop")
    /\ UNCHANGED <<epoch, training, i, batch_num, output, result, handled, locals>>

\* (mutant) the stop signal is caught but not recorded on the FitOutput.
ExceptNoRecord(o) ==
    /\ pc = "except"
    /\ trace' = Append(trace, <<"on_exception", epoch>>)
    /\ handled' = Append(handled, exc)
    /\ IF o = Returns
       THEN IF exc = StopFitIteration
            THEN /\ exc' = None
                 /\ UNCHANGED <<output, raises>>
            ELSE UNCHANGED <<output, exc, raises>>
       ELSE /\ exc' = o
            /\ raises' = Append(raises, <<"on_exception", o>>)
            /\ UNCHANGED output
    /\ pc' = "finally"
    /\ UNCHANGED <<epoch, training, i, batch_num, result, locals>>

\* (mutant) the stop signal is handled by the generic clause and re-raised.
ExceptStopAsFatal(o) ==
    /\ pc = "except"
    /\ trace' = Append(trace, <<"on_exception", epoch>>)
    /\ handled' = Append(handled, exc)
    /\ IF o = Returns
       THEN UNCHANGED <<output, exc, raises>>
       ELSE /\ exc' = o
            /\ raises' = Append(raises, <<"on_exception", o>>)
            /\ UNCHANGED output
    /\ pc' = "finally"
    /\ UNCHANGED <<epoch, training, i, batch_num, result, locals>>

\* (mutant) the generic clause does not re-raise.
ExceptSwallows(o) ==
    /\ pc = "except"
    /\ trace' = Append(trace, <<"on_exception", epoch>>)
    /\ handled' = Append(handled, exc)
    /\ IF o = Returns
       THEN IF exc = StopFitIteration
            THEN /\ output' = [output EXCEPT !.exception = exc]
                 /\ exc' = None
                 /\ UNCHANGED raises
            ELSE /\ exc' = None
                 /\ UNCHANGED <<output, raises>>
       ELSE /\ exc' = o
            /\ raises' = Append(raises, <<"on_exception", o>>)
            /\ UNCHANGED output
    /\ pc' = "finally"
    /\ UNCHANGED <<epoch, training, i, batch_num, result, locals>>

\* (mutant) the generic clause raises a new exception in place of the one caught.
ExceptWraps(o) ==
    /\ pc = "except"
    /\ trace' = Append(trace, <<"on_exception", epoch>>)
    /\ handled' = Append(handled, exc)
    /\ IF o = Returns
       THEN IF exc = StopFitIteration
            THEN /\ output' = [output EXCEPT !.exception = exc]
                 /\ exc' = None
                 /\ UNCHANGED raises
            ELSE /\ exc' = "ErrorB"
                 /\ UNCHANGED <<output, raises>>
       ELSE /\ exc' = o
            /\ raises' = Append(raises, <<"on_exception", o>>)
            /\ UNCHANGED output
    /\ pc' = "finally"
    /\ UNCHANGED <<epoch, training, i, batch_num, result, locals>>

\* (mutant) the open epoch is closed with on_epoch_end before on_exception.
ExceptClosesEpoch(o) ==
    /\ pc = "except"
    /\ trace' = (IF Len(SelectSeq(trace, LAMBDA ev : ev[1] = "on_epoch_start"))
                    > Len(SelectSeq(trace, LAMBDA ev : ev[1] = "on_epoch_end"))
                 THEN Append(trace, <<"on_epoch_end", epoch>>) ELSE trace)
                \o << <<"on_exception", epoch>> >>
    /\ handled' = Append(handled, exc)
    /\ IF o = Returns
       THEN IF exc = StopFitIteration
            THEN /\ output' = [output EXCEPT !.exception = exc]
                 /\ exc' = None
                 /\ UNCHANGED raises
            ELSE UNCHANGED <<output, exc, raises>>
       ELSE /\ exc' = o
            /\ raises' = Append(raises, <<"on_exception", o>>)
            /\ UNCHANGED output
    /\ pc' = "finally"
    /\ UNCHANGED <<epoch, training, i, batch_num, result, locals>>

\* except StopFitIteration as e: on_exception; output.exception = e
\* except Exception as e: on_exception; raise
\* An exception raised by on_exception itself leaves the except clause in
\* place of the one being handled.
Except(o) ==
    /\ pc = "except"
    /\ trace' = Append(trace, <<"on_exception", epoch>>)
    /\ handled' = Append(handled, exc)
    /\ IF o = Returns
       THEN IF exc = StopFitIteration
            THEN /\ output' = [output EXCEPT !.exception = exc]
                 /\ exc' = None
                 /\ UNCHANGED raises
            ELSE UNCHANGED <<output, exc, raises>>
       ELSE /\ exc' = o
            /\ raises' = Append(raises, <<"on_exception", o>>)
            /\ UNCHANGED output
    /\ pc' = "finally"
    /\ UNCHANGED <<epoch, training, i, batch_num, result, locals>>

\* (mutant) a fit call that ends by an exception puts the epoch counter back
\* to its value at the start of the call.
FinallyRollsBack ==
    /\ pc = "finally"
    /\ training' = original_train_mode
    /\ IF exc = None
       THEN /\ pc' = "tracked_values"
            /\ epoch' = epoch
            /\ UNCHANGED result
       ELSE /\ pc' = "done"
            /\ epoch' = start_epoch
            /\ result' = [kind |-> "raised", value |-> exc]
    /\ UNCHANGED <<i, batch_num, output, exc, trace, handled, raises, locals>>

\* (mutant) the mode is not restored when the call ends.
FinallyNoRestore ==
    /\ pc = "finally"
    /\ IF exc = None
       THEN /\ pc' = "tracked_values"
            /\ UNCHANGED result
       ELSE /\ pc' = "done"
            /\ result' = [kind |-> "raised", value |-> exc]
    /\ UNCHANGED <<epoch, training, i, batch_num, output, exc, trace, handled,
                   raises, locals>>

\* finally: self.model.train(original_train_mode); an exception still in
\* flight then reaches the caller.
Finally ==
    /\ pc = "finally"
    /\ training' = original_train_mode
    /\ IF exc = None
       THEN /\ pc' = "tracked_values"
            /\ UNCHANGED result
       ELSE /\ pc' = "done"
            /\ result' = [kind |-> "raised", value |-> exc]
    /\ UNCHANGED <<epoch, i, batch_num, output, exc, trace, handled, raises, locals>>

\* (mutant) only the training evaluator's tracked values are filled in.
TrackedValuesTrainOnly ==
    /\ pc = "tracked_values"
    /\ output' = [output EXCEPT !.train_tracked_values = TRUE]
    /\ pc' = "on_fit_end"
    /\ UNCHANGED <<epoch, training, i, batch_num, exc, result, trace, handled,
                   raises, locals>>

\* output.update_train_tracked_values(...); output.update_val_tracked_values(...)
TrackedValues ==
    /\ pc = "tracked_values"
    /\ output' = [output EXCEPT !.train_tracked_values = TRUE,
                                !.val_tracked_values = TRUE]
    /\ pc' = "on_fit_end"
    /\ UNCHANGED <<epoch, training, i, batch_num, exc, result, trace, handled,
                   raises, locals>>

\* (mutant) on_fit_end is given the number of epochs that ran to their end.
OnFitEndCompletedEpochs(o) ==
    /\ pc = "on_fit_end"
    /\ trace' = Append(trace, <<"on_fit_end",
                                Len(SelectSeq(trace, LAMBDA ev : ev[1] = "on_epoch_end"))>>)
    /\ IF o = Returns
       THEN /\ result' = [kind |-> "returned", value |-> output.exception]
            /\ UNCHANGED <<exc, raises>>
       ELSE /\ result' = [kind |-> "raised", value |-> o]
            /\ exc' = o
            /\ raises' = Append(raises, <<"on_fit_end", o>>)
    /\ pc' = "done"
    /\ UNCHANGED <<epoch, training, i, batch_num, output, handled, locals>>

\* self.callback.on_fit_end(self, self.epoch - start_epoch, output); return output
OnFitEnd(o) ==
    /\ pc = "on_fit_end"
    /\ trace' = Append(trace, <<"on_fit_end", epoch - start_epoch>>)
    /\ IF o = Returns
       THEN /\ result' = [kind |-> "returned", value |-> output.exception]
            /\ UNCHANGED <<exc, raises>>
       ELSE /\ result' = [kind |-> "raised", value |-> o]
            /\ exc' = o
            /\ raises' = Append(raises, <<"on_fit_end", o>>)
    /\ pc' = "done"
    /\ UNCHANGED <<epoch, training, i, batch_num, output, handled, locals>>

\* The call is over: its frame is gone and the caller goes on with the
\* trainer as fit left it.
Return ==
    /\ pc = "done"
    /\ pc' = "idle"
    /\ num_epochs' = 0
    /\ validate_every' = 1
    /\ num_batches' = 0
    /\ i' = 0
    /\ batch_num' = 0
    /\ original_train_mode' = training
    /\ start_epoch' = epoch
    /\ output' = NoOutput
    /\ exc' = None
    /\ result' = NoResult
    /\ trace' = <<>>
    /\ handled' = <<>>
    /\ raises' = <<>>
    /\ before' = [epoch |-> epoch, training |-> training]
    /\ role' = "no"
    /\ UNCHANGED <<epoch, training, collab, ckpt, synced>>
    /\ UNCHANGED aside

\* -------------------------------------------------------------- checkpoint
\* Trainer.__init__ on fresh collaborators.
NewTrainer(mode) ==
    /\ pc = "idle"
    /\ epoch' = -1
    /\ collab' = FreshCollab
    /\ training' = mode
    /\ original_train_mode' = mode
    /\ start_epoch' = -1
    /\ before' = [epoch |-> -1, training |-> mode]
    /\ synced' = "no"
    /\ UNCHANGED <<pc, num_epochs, validate_every, num_batches, i, batch_num,
                   output, exc, result, trace, handled, raises, ckpt, role>>
    /\ UNCHANGED aside

\* state_dict(): each collaborator's own state_dict() and the epoch counter.
StateDictOf(c, e) ==
    [model |-> c["model"], optimizer |-> c["optimizer"],
     value_store |-> c["value_store"], train_evaluator |-> c["train_evaluator"],
     val_evaluator |-> c["val_evaluator"], callback |-> c["callback"],
     epoch |-> e]

\* One mapping is captured per behaviour (the guard ckpt = NoCkpt keeps the
\* state space finite and small).
StateDict ==
    /\ pc = "idle"
    /\ ckpt = NoCkpt
    /\ ckpt' = StateDictOf(collab, epoch)
    /\ synced' = "captured"
    /\ UNCHANGED <<epoch, training, pc, num_epochs, validate_every, num_batches,
                   i, batch_num, original_train_mode, start_epoch, output, exc,
                   result, trace, handled, raises, before, collab, role>>
    /\ UNCHANGED aside

\* The collaborators after load_state_dict(state_dict) in which the restore
\* of collaborator number `fail` raised (0: none raised): those before it are
\* restored, it and those after it are not.
Restored(c, state_dict, fail) ==
    [k \in CollabSet |->
        IF \E j \in 1..Len(CollabKeys) :
              CollabKeys[j] = k /\ (fail = 0 \/ j < fail)
        THEN state_dict[k] ELSE c[k]]

\* (mutant) load_state_dict leaves the epoch counter alone.
RestoredEpochForgotten(e, state_dict, fail) == e

\* (mutant) load_state_dict assigns the epoch counter first.
RestoredEpochFirst(e, state_dict, fail) == state_dict["epoch"]

\* The epoch counter after that call: self.epoch = state_dict["epoch"] is the
\* last statement.
RestoredEpoch(e, state_dict, fail) == IF fail = 0 THEN state_dict["epoch"] ELSE e

LoadStateDict(fail) ==
    /\ pc = "idle"
    /\ ckpt # NoCkpt
    /\ collab' = Restored(collab, ckpt, fail)
    /\ epoch' = RestoredEpoch(epoch, ckpt, fail)
    /\ synced' = IF fail # 0 THEN "load_failed"
                 ELSE IF epoch = -1 /\ collab = FreshCollab THEN "loaded_fresh"
                 ELSE "loaded"
    /\ start_epoch' = epoch'
    /\ before' = [epoch |-> epoch', training |-> training]
    /\ UNCHANGED <<training, pc, num_epochs, validate_every, num_batches, i,
                   batch_num, original_train_mode, output, exc, result, trace,
                   handled, raises, ckpt, role>>
    /\ UNCHANGED aside

Step ==
    \/ \E o \in LoopOutcomes : OnFitStart(o)
    \/ EpochLoop
    \/ \E o \in LoopOutcomes : OnEpochStart(o)
    \/ \E o \in LoopOutcomes : TrainStart(o)
    \/ \E o \in LoopOutcomes : TrainEvaluatorEpochStart(o)
    \/ BatchLoop
    \/ \E o \in LoopOutcomes : OnTrainBatchStart(o)
    \/ \E o \in LoopOutcomes : BatchUpdate(o)
    \/ \E o \in LoopOutcomes : EvaluateBatch(o)
    \/ \E o \in LoopOutcomes : OnTrainBatchEnd(o)
    \/ \E o \in LoopOutcomes : TrainEvaluatorEpochEnd(o)
    \/ \E o \in LoopOutcomes : OnEpochTrainEnd(o)
    \/ ValidateCheck
    \/ \E o \in LoopOutcomes : ValidateStart(o)
    \/ \E o \in LoopOutcomes : ValEvaluatorEpochStart(o)
    \/ \E o \in LoopOutcomes : Evaluate(o)
    \/ \E o \in LoopOutcomes : ValEvaluatorEpochEnd(o)
    \/ \E o \in LoopOutcomes : OnEpochValidationEnd(o)
    \/ \E o \in LoopOutcomes : OnEpochEnd(o)
    \/ \E o \in HandlerOutcomes : Except(o)
    \/ Finally
    \/ TrackedValues
    \/ \E o \in HandlerOutcomes : OnFitEnd(o)
    \/ Return

Next ==
    \/ \E n \in 0..(MaxEpoch + 1), ve \in 1..MaxValidateEvery, nb \in 0..MaxBatches :
          FitCall(n, ve, nb)
    \/ Step

Spec == Init /\ [][Next]_vars

\* The checkpoint protocol, with collaborators that do not raise during fit.
StepReturns ==
    \/ OnFitStart(Returns)
    \/ EpochLoop
    \/ OnEpochStart(Returns)
    \/ TrainStart(Returns)
    \/ TrainEvaluatorEpochStart(Returns)
    \/ BatchLoop
    \/ OnTrainBatchStart(Returns)
    \/ BatchUpdate(Returns)
    \/ EvaluateBatch(Returns)
    \/ OnTrainBatchEnd(Returns)
    \/ TrainEvaluatorEpochEnd(Returns)
    \/ OnEpochTrainEnd(Returns)
    \/ ValidateCheck
    \/ ValidateStart(Returns)
    \/ ValEvaluatorEpochStart(Returns)
    \/ Evaluate(Returns)
    \/ ValEvaluatorEpochEnd(Returns)
    \/ OnEpochValidationEnd(Returns)
    \/ OnEpochEnd(Returns)
    \/ Finally
    \/ TrackedValues
    \/ OnFitEnd(Returns)
    \/ Return

NextCkpt ==
    \/ \E n \in 0..(MaxEpoch + 1), ve \in 1..MaxValidateEvery, nb \in 0..MaxBatches :
          FitCall(n, ve, nb)
    \/ StepReturns
    \/ \E mode \in BOOLEAN : NewTrainer(mode)
    \/ StateDict
    \/ \E fail \in 0..Len(CollabKeys) : LoadStateDict(fail)

SpecCkpt == Init /\ [][NextCkpt]_vars

\* -------------------------------------------------------- callback composite
\* The Trainer's callback as a ComposeCallback over two children, in
\* insertion order.
Children == <<"A", "B">>
\* The first child whose handler raises, given each child's outcome were it
\* invoked; 0 when every handler returns.
FirstRaising(outcomes) ==
    IF \A k \in 1..Len(outcomes) : outcomes[k] = Returns
    THEN 0
    ELSE CHOOSE k \in 1..Len(outcomes) :
            /\ outcomes[k] # Returns
            /\ \A j \in 1..(k - 1) : outcomes[j] = Returns

\* (mutant) every child is invoked, whatever the children before it did.
InvokedIsolated(outcomes) ==
    [k \in 1..Len(outcomes) |-> <<Children[k], outcomes[k]>>]

\* The children the composite invokes for one event: each in turn, up to and
\* including the first whose handler raises.
Invoked(outcomes) ==
    LET last == IF FirstRaising(outcomes) = 0 THEN Len(outcomes)
                ELSE FirstRaising(outcomes)
    IN  [k \in 1..last |-> <<Children[k], outcomes[k]>>]

\* What the composite's handler does, seen by the Trainer: it returns, or it
\* raises what the first raising child raised.
Dispatch(outcomes) ==
    IF FirstRaising(outcomes) = 0 THEN Returns
    ELSE outcomes[FirstRaising(outcomes)]

\* self.callback.on_epoch_start(self), the callback being the composite.
ComposeOnEpochStart(outcomes) ==
    /\ pc = "on_epoch_start"
    /\ dispatched' = Invoked(outcomes)
    /\ Invoke("on_epoch_start", epoch, Dispatch(outcomes), "train")
    /\ UNCHANGED <<epoch, training, i, batch_num, output, result, handled, call,
                   collab, value_store, optimizer>>

\* fit with the composite as callback: the children's on_epoch_start handlers
\* may raise, every other call returns.
NextCompose ==
    \/ \E n \in 0..(MaxEpoch + 1), ve \in 1..MaxValidateEvery, nb \in 0..MaxBatches :
          FitCall(n, ve, nb)
    \/ OnFitStart(Returns)
    \/ EpochLoop
    \/ \E outcomes \in [1..Len(Children) -> LoopOutcomes] : ComposeOnEpochStart(outcomes)
    \/ TrainStart(Returns)
    \/ TrainEvaluatorEpochStart(Returns)
    \/ BatchLoop
    \/ OnTrainBatchStart(Returns)
    \/ BatchUpdate(Returns)
    \/ EvaluateBatch(Returns)
    \/ OnTrainBatchEnd(Returns)
    \/ TrainEvaluatorEpochEnd(Returns)
    \/ OnEpochTrainEnd(Returns)
    \/ ValidateCheck
    \/ ValidateStart(Returns)
    \/ ValEvaluatorEpochStart(Returns)
    \/ Evaluate(Returns)
    \/ ValEvaluatorEpochEnd(Returns)
    \/ OnEpochValidationEnd(Returns)
    \/ OnEpochEnd(Returns)
    \/ \E o \in HandlerOutcomes : Except(o)
    \/ Finally
    \/ TrackedValues
    \/ OnFitEnd(Returns)
    \/ Return

SpecCompose == Init /\ [][NextCompose]_vars

\* ---------------------------------------------------------------- value store
\* The Trainer's variables, which a call on its value store or on the
\* optimizer leaves alone.
trainer == <<epoch, training, pc, i, batch_num, output, exc, result, trace,
             handled, raises, collab, call>>

\* The arguments the update calls are made with (values in tenths).
Names == {"loss", "accuracy"}
Values == {5, 7}
Epochs == {3, 4}

NamesIn(tv) == {tv[k].name : k \in 1..Len(tv)}

\* (mutant) update puts a new TrackedValue in the place of the one held.
updateReplaces(tv, n, name, value, epoch_arg) ==
    IF name \in NamesIn(tv)
    THEN [k \in 1..Len(tv) |->
            IF tv[k].name = name
            THEN [name |-> name, id |-> n + 1, current_value |-> value,
                  epoch_last_updated |-> epoch_arg]
            ELSE tv[k]]
    ELSE Append(tv, [name |-> name, id |-> n + 1, current_value |-> value,
                     epoch_last_updated |-> epoch_arg])

\* update(name, value, epoch) on the tracked values tv, n TrackedValue
\* objects having been constructed so far: the TrackedValue held under the
\* name is changed in place; a name not held yet gets a new one.
update(tv, n, name, value, epoch_arg) ==
    IF name \in NamesIn(tv)
    THEN [k \in 1..Len(tv) |->
            IF tv[k].name = name
            THEN [tv[k] EXCEPT !.current_value = value, !.epoch_last_updated = epoch_arg]
            ELSE tv[k]]
    ELSE Append(tv, [name |-> name, id |-> n + 1, current_value |-> value,
                     epoch_last_updated |-> epoch_arg])

Update(name, value, epoch_arg) ==
    /\ Len(updates) < MaxUpdates
    /\ tracked_values' = update(tracked_values, created, name, value, epoch_arg)
    /\ created' = IF \E k \in 1..Len(tracked_values') : tracked_values'[k].id > created
                  THEN created + 1 ELSE created
    /\ updates' = Append(updates, <<name, value, epoch_arg>>)
    /\ UNCHANGED <<trainer, dispatched, optimizer>>

\* ProgressLogger.on_epoch_end: the tracked values it reports for the
\* trainer's epoch e, name -> current_value of those last updated in e.
updated_other_tracked_values(tv, e) ==
    [name \in {tv[k].name : k \in {j \in 1..Len(tv) : tv[j].epoch_last_updated = e}} |->
        LET held == SelectSeq(tv, LAMBDA t : t.name = name /\ t.epoch_last_updated = e)
        IN  held[Len(held)].current_value]

NextValueStore ==
    \E name \in Names, value \in Values, epoch_arg \in Epochs : Update(name, value, epoch_arg)

SpecValueStore == Init /\ [][NextValueStore]_vars

\* ----------------------------------------------------------------- optimizer
\* The gradients of a group's parameters: none has a gradient, some have a
\* dense one, or one has a sparse one (which step() refuses).
Grads == {"none", "dense", "sparse"}
\* state['step'] = 0; state['square_avg'] = torch.tensor(0.), the tensor
\* being abstracted to the numbers of mul_ and add_ applied to it.
InitialState == [step |-> 0, square_avg |-> [mul_ |-> 0, add_ |-> 0]]

\* (mutant) the state is initialised in every iteration.
GroupStateReinitialised(st, grad) ==
    [step |-> InitialState.step + 1,
     square_avg |-> [mul_ |-> InitialState.square_avg.mul_ + 1,
                     add_ |-> InitialState.square_avg.add_
                              + (IF grad = "dense" THEN 1 ELSE 0)]]

\* The optimizer's state after one iteration of the loop over param_groups,
\* up to the gradient loop: initialisation when the state is empty,
\* square_avg.mul_(beta), state['step'] += 1, square_avg.add_ for the
\* parameters with a dense gradient.
GroupState(st, grad) ==
    LET s0 == IF Cardinality(DOMAIN st) = 0 THEN InitialState ELSE st
    IN  [step |-> s0.step + 1,
         square_avg |-> [mul_ |-> s0.square_avg.mul_ + 1,
                         add_ |-> s0.square_avg.add_
                                  + (IF grad = "dense" THEN 1 ELSE 0)]]

\* The loop over param_groups from group j on: it ends after the last group,
\* or in the group with a sparse gradient, by RuntimeError, that group's
\* adjusted_lr and the groups after it left as they were.
RECURSIVE StepFrom(_, _, _, _)
StepFrom(st, groups, grads, j) ==
    IF j > Len(groups)
    THEN [state |-> st, param_groups |-> groups, reached |-> j - 1]
    ELSE LET s1 == GroupState(st, grads[j])
         IN  IF grads[j] = "sparse"
             THEN [state |-> s1, param_groups |-> groups, reached |-> j]
             ELSE StepFrom(s1, [groups EXCEPT ![j].adjusted_lr = <<s1>>], grads, j + 1)

\* GroupRMSprop.step()
OptimizerStep(grads) ==
    /\ Len(steps) < MaxSteps
    /\ LET r == StepFrom(state, param_groups, grads, 1)
       IN  /\ state' = r.state
           /\ param_groups' = r.param_groups
           /\ steps' = Append(steps, r.reached)
    /\ UNCHANGED <<trainer, dispatched, value_store>>

InitGroupRMSprop ==
    /\ TrainerInit
    /\ ComposeInit
    /\ ValueStoreInit
    /\ \E g \in 1..MaxGroups : GroupRMSpropInit(g)

NextGroupRMSprop ==
    \E grads \in [1..Len(param_groups) -> Grads] : OptimizerStep(grads)

SpecGroupRMSprop == InitGroupRMSprop /\ [][NextGroupRMSprop]_vars
\* ------------------------------------------------------------ observations
Last(s) == s[Len(s)]
IsPrefix(s, t) == Len(s) <= Len(t) /\ SubSeq(t, 1, Len(s)) = s
\* The calls named `name` made so far, and their arguments, in order.
EventsNamed(name) == SelectSeq(trace, LAMBDA ev : ev[1] = name)
ArgsOf(name) == [k \in 1..Len(EventsNamed(name)) |-> EventsNamed(name)[k][2]]
Count(name) == Len(EventsNamed(name))
\* The integers a..b in order.
Range(a, b) == [k \in 1..(b - a + 1) |-> a + k - 1]
\* The calls made inside the try block.
LoopCalls ==
    {"on_fit_start", "on_epoch_start", "on_epoch_train_start",
     "train_evaluator.epoch_start", "on_train_batch_start", "batch_update",
     "train_evaluator.evaluate_batch", "on_train_batch_end",
     "train_evaluator.epoch_end", "on_epoch_train_end",
     "on_epoch_validation_start", "val_evaluator.epoch_start",
     "val_evaluator.evaluate", "val_evaluator.epoch_end",
     "on_epoch_validation_end", "on_epoch_end"}
NothingRaised == raises = <<>>

\* ---------------------------------------------------------------- claims
\* C1: a fit call with num_epochs = N in which nothing raises, started at any
\* value of the epoch counter, runs the epoch loop exactly N times, the
\* counter going up by one in each iteration, and ends with
\* epoch = start_epoch + N.
C1_EpochLoopRunsNTimes ==
    (pc = "done" /\ NothingRaised) =>
        /\ i = num_epochs
        /\ epoch = before.epoch + num_epochs
        /\ ArgsOf("on_epoch_start") = Range(before.epoch + 1, before.epoch + num_epochs)
        /\ result.kind = "returned"

C1_Witness ==
    /\ pc = "done"
    /\ NothingRaised
    /\ before.epoch = 0
    /\ num_epochs = 2
    /\ epoch = 2

\* C2: when a fit call is over, whichever way it ended (normal completion,
\* graceful stop, an exception reaching the caller), the model is in the
\* mode it was in just before the call.
C2_ModeRestored ==
    pc = "done" => training = before.training

C2_Witness ==
    /\ pc = "done"
    /\ before.training = FALSE
    /\ result = [kind |-> "raised", value |-> "ErrorA"]
    /\ Count("batch_update") > 0

\* The only raise of the call is exception `e` raised by the call `name`.
OnlyRaise(name, e) == raises = << <<name, e>> >>
\* The first raise of the call came from inside the try block and is `e`.
FirstRaiseInLoop(e) ==
    /\ raises # <<>>
    /\ raises[1][1] \in LoopCalls
    /\ raises[1][2] = e
\* The last two calls of the call, when it made at least two.
LastTwo == SubSeq(trace, Len(trace) - 1, Len(trace))

\* C3: on a trainer as constructed, when on_train_batch_end raises the stop
\* signal during epoch k (and that is the only raise), fit returns its
\* FitOutput with output.exception the signal and epoch = k; on_exception is
\* called first, then the signal is recorded, then the tracked values are
\* filled in, then on_fit_end is called, then fit returns.
C3_StopFromBatchEnd ==
    (before.epoch = -1 /\ OnlyRaise("on_train_batch_end", StopFitIteration)) =>
        /\ epoch = i - 1
        /\ epoch = Last(ArgsOf("on_epoch_start"))
        /\ handled = <<StopFitIteration>> => Last(trace)[1] \in {"on_exception", "on_fit_end"}
        /\ pc = "except" =>
              /\ output = NoOutput
              /\ Count("on_exception") = 0
        /\ pc = "finally" =>
              /\ Last(trace)[1] = "on_exception"
              /\ output = [NoOutput EXCEPT !.exception = StopFitIteration]
        /\ pc = "tracked_values" =>
              /\ Last(trace)[1] = "on_exception"
              /\ output = [NoOutput EXCEPT !.exception = StopFitIteration]
        /\ pc = "on_fit_end" =>
              /\ Last(trace)[1] = "on_exception"
              /\ output = [exception |-> StopFitIteration,
                           train_tracked_values |-> TRUE,
                           val_tracked_values |-> TRUE]
        /\ pc = "done" =>
              /\ result = [kind |-> "returned", value |-> StopFitIteration]
              /\ output = [exception |-> StopFitIteration,
                           train_tracked_values |-> TRUE,
                           val_tracked_values |-> TRUE]
              /\ LastTwo = << <<"on_exception", epoch>>, <<"on_fit_end", i>> >>
              /\ Count("on_exception") = 1
              /\ Count("on_fit_end") = 1

C3_Witness ==
    /\ pc = "done"
    /\ before.epoch = -1
    /\ OnlyRaise("on_train_batch_end", StopFitIteration)
    /\ num_epochs = 4
    /\ epoch = 2
    /\ result.kind = "returned"

\* C4 (as claimed): whichever call of a fit call raises the stop signal,
\* on_exception and on_fit_end included, fit returns its FitOutput with the
\* signal recorded and the signal does not reach the caller.
C4_StopAlwaysCaught ==
    (pc = "done" /\ raises # <<>> /\ \A k \in 1..Len(raises) : raises[k][2] = StopFitIteration) =>
        /\ result.kind = "returned"
        /\ output.exception = StopFitIteration

\* C4 (amended): a stop signal raised by a call made inside the try block
\* (a callback event from on_fit_start to on_epoch_end, an evaluator call,
\* batch_update) is passed to on_exception and, when on_exception and
\* on_fit_end then return, fit returns its FitOutput with the signal
\* recorded; a stop signal raised by on_exception or by on_fit_end is not
\* caught and reaches the caller.
C4_StopCaughtInLoop ==
    /\ (FirstRaiseInLoop(StopFitIteration) /\ pc \in {"finally", "tracked_values", "on_fit_end", "done"}) =>
          handled = <<StopFitIteration>>
    /\ (pc = "done" /\ Len(raises) = 1 /\ FirstRaiseInLoop(StopFitIteration)) =>
          /\ result = [kind |-> "returned", value |-> StopFitIteration]
          /\ output.exception = StopFitIteration
    /\ (pc = "done" /\ raises # <<>> /\ Last(raises)[1] \in {"on_exception", "on_fit_end"}) =>
          result = [kind |-> "raised", value |-> Last(raises)[2]]

C4_Witness ==
    /\ pc = "done"
    /\ OnlyRaise("val_evaluator.epoch_start", StopFitIteration)
    /\ result.kind = "returned"

\* C5: when batch_update raises an exception other than the stop signal, fit
\* does not return: an exception reaches the caller (that one, when
\* on_exception returns), on_exception has been called exactly once, with
\* that exception, on_fit_end is not called and the FitOutput is never
\* completed.
C5_FatalFromBatchUpdate ==
    (pc = "done" /\ raises # <<>> /\ raises[1] = <<"batch_update", "ErrorA">>) =>
        /\ result.kind = "raised"
        /\ Len(raises) = 1 => result.value = "ErrorA"
        /\ handled = <<"ErrorA">>
        /\ Count("on_exception") = 1
        /\ Count("on_fit_end") = 0
        /\ output = NoOutput

C5_Witness ==
    /\ pc = "done"
    /\ OnlyRaise("batch_update", "ErrorA")
    /\ result = [kind |-> "raised", value |-> "ErrorA"]
    /\ epoch = 1

\* C6: an exception E other than the stop signal raised inside the try block
\* (by a callback event, an evaluator call or batch_update) is passed to
\* on_exception, fit never returns normally after it, and when on_exception
\* returns the exception that reaches the caller is E itself.
C6_FatalReraisedUnchanged ==
    \A e \in LoopRaises \ {StopFitIteration} :
        /\ (FirstRaiseInLoop(e) /\ pc \in {"finally", "done"}) => handled = <<e>>
        /\ (FirstRaiseInLoop(e) /\ pc = "done") => result.kind = "raised"
        /\ (FirstRaiseInLoop(e) /\ pc = "done" /\ Len(raises) = 1) =>
              result = [kind |-> "raised", value |-> e]
        /\ FirstRaiseInLoop(e) => pc \in {"except", "finally", "done"}

C6_Witness ==
    /\ pc = "done"
    /\ OnlyRaise("val_evaluator.evaluate", "ErrorA")
    /\ result = [kind |-> "raised", value |-> "ErrorA"]

\* C7: the validation phase runs in an epoch exactly when
\* (epoch + 1) % validate_every = 0, epoch being the trainer's counter (not
\* the iteration's index within the call): it never starts in another epoch,
\* and every epoch that gets to on_epoch_end has had it if and only if the
\* condition holds.
ValidatedEpochs == {ArgsOf("on_epoch_validation_start")[k] :
                       k \in 1..Count("on_epoch_validation_start")}
EndedEpochs == {ArgsOf("on_epoch_end")[k] : k \in 1..Count("on_epoch_end")}
C7_ValidationSchedule ==
    /\ \A e \in ValidatedEpochs : (e + 1) % validate_every = 0
    /\ \A e \in EndedEpochs : e \in ValidatedEpochs <=> (e + 1) % validate_every = 0
    /\ Count("on_epoch_validation_start") = Cardinality(ValidatedEpochs)
    /\ pc = "validate" => (epoch + 1) % validate_every = 0
    /\ pc = "on_epoch_end" => (epoch \in ValidatedEpochs <=> (epoch + 1) % validate_every = 0)

C7_Witness ==
    /\ pc = "done"
    /\ NothingRaised
    /\ before.epoch = -1
    /\ validate_every = 2
    /\ num_epochs = 4
    /\ ArgsOf("on_epoch_validation_start") = <<1, 3>>
    /\ ArgsOf("on_epoch_end") = <<0, 1, 2, 3>>

\* C8: in a fit call with num_epochs = N over B batches in which nothing
\* raises, on_epoch_start and on_epoch_end are each called N times, and
\* between the k-th on_epoch_start and the k-th on_epoch_end
\* on_train_batch_start and on_train_batch_end are each called B times,
\* with batch_num 0, 1, ..., B-1 in that order.
Positions(name) ==
    SelectSeq([j \in 1..Len(trace) |-> j], LAMBDA j : trace[j][1] = name)
EpochSegment(k) ==
    SubSeq(trace, Positions("on_epoch_start")[k], Positions("on_epoch_end")[k])
ArgsIn(seg, name) ==
    LET sel == SelectSeq(seg, LAMBDA ev : ev[1] = name)
    IN  [k \in 1..Len(sel) |-> sel[k][2]]
C8_EventCounts ==
    (pc = "done" /\ NothingRaised) =>
        /\ Count("on_epoch_start") = num_epochs
        /\ Count("on_epoch_end") = num_epochs
        /\ Count("on_train_batch_start") = num_epochs * num_batches
        /\ Count("on_train_batch_end") = num_epochs * num_batches
        /\ \A k \in 1..num_epochs :
              /\ Positions("on_epoch_start")[k] < Positions("on_epoch_end")[k]
              /\ ArgsIn(EpochSegment(k), "on_train_batch_start") = Range(0, num_batches - 1)
              /\ ArgsIn(EpochSegment(k), "on_train_batch_end") = Range(0, num_batches - 1)

C8_Witness ==
    /\ pc = "done"
    /\ NothingRaised
    /\ num_epochs = 3
    /\ num_batches = 2
    /\ ArgsOf("on_train_batch_end") = <<0, 1, 0, 1, 0, 1>>

\* The order of calls the lifecycle prescribes for a fit call started at
\* counter value s with arguments n, ve and nb batches.
BatchCalls(b) ==
    << <<"on_train_batch_start", b>>, <<"batch_update", b>>,
       <<"train_evaluator.evaluate_batch", b>>, <<"on_train_batch_end", b>> >>
RECURSIVE BatchesFrom(_, _)
BatchesFrom(b, nb) ==
    IF b >= nb THEN <<>> ELSE BatchCalls(b) \o BatchesFrom(b + 1, nb)
TrainingPhase(e, nb) ==
    << <<"on_epoch_train_start", nb>>, <<"train_evaluator.epoch_start", e>> >>
    \o BatchesFrom(0, nb)
    \o << <<"train_evaluator.epoch_end", e>>, <<"on_epoch_train_end", e>> >>
ValidationPhase(e) ==
    << <<"on_epoch_validation_start", e>>, <<"val_evaluator.epoch_start", e>>,
       <<"val_evaluator.evaluate", e>>, <<"val_evaluator.epoch_end", e>>,
       <<"on_epoch_validation_end", e>> >>
EpochCalls(e, ve, nb) ==
    << <<"on_epoch_start", e>> >>
    \o TrainingPhase(e, nb)
    \o (IF (e + 1) % ve = 0 THEN ValidationPhase(e) ELSE <<>>)
    \o << <<"on_epoch_end", e>> >>
RECURSIVE EpochsFrom(_, _, _, _)
EpochsFrom(e, n, ve, nb) ==
    IF n <= 0 THEN <<>> ELSE EpochCalls(e, ve, nb) \o EpochsFrom(e + 1, n - 1, ve, nb)
LoopTrace(s, n, ve, nb) == << <<"on_fit_start", n>> >> \o EpochsFrom(s + 1, n, ve, nb)
FitTrace(s, n, ve, nb) == LoopTrace(s, n, ve, nb) \o << <<"on_fit_end", n>> >>

\* C9: the calls of a fit call come in the lifecycle's order: on_fit_start
\* first; per epoch on_epoch_start, the training phase, the validation phase
\* when due, on_epoch_end; after the last call made inside the try block come
\* at most on_exception and then on_fit_end, which is last and called at most
\* once; a call in which nothing raises makes exactly the prescribed calls.
C9_LifecycleOrder ==
    LET loop == SelectSeq(trace, LAMBDA ev : ev[1] \in LoopCalls)
        tail == SelectSeq(trace, LAMBDA ev : ev[1] \notin LoopCalls)
        names == [k \in 1..Len(tail) |-> tail[k][1]]
    IN  /\ IsPrefix(loop, LoopTrace(before.epoch, num_epochs, validate_every, num_batches))
        /\ trace = loop \o tail
        /\ names \in {<<>>, <<"on_exception">>, <<"on_fit_end">>,
                       <<"on_exception", "on_fit_end">>}
        /\ trace # <<>> => trace[1][1] = "on_fit_start"
        /\ Count("on_fit_end") = 1 => pc = "done"
        /\ (pc = "done" /\ NothingRaised) =>
              trace = FitTrace(before.epoch, num_epochs, validate_every, num_batches)

C9_Witness ==
    /\ pc = "done"
    /\ NothingRaised
    /\ before.epoch = 1
    /\ num_epochs = 2
    /\ validate_every = 1
    /\ num_batches = 2
    /\ Len(trace) = 40

\* C10: state_dict() returns a mapping with exactly the keys model,
\* optimizer, value_store, train_evaluator, val_evaluator, callback, epoch;
\* after load_state_dict of it (on a trainer as constructed, or any other)
\* the trainer's counter and collaborators are the captured ones, and its
\* next fit call makes, call for call, the calls that the same fit call
\* makes on the trainer the mapping was captured from: it starts at
\* epoch + 1 and validates in the same epochs.
StateDictKeys ==
    {"model", "optimizer", "value_store", "train_evaluator", "val_evaluator",
     "callback", "epoch"}
Loaded == {"loaded", "loaded_fresh"}
C10_CheckpointRoundTrip ==
    /\ ckpt # NoCkpt => DOMAIN ckpt = StateDictKeys
    /\ synced \in Loaded =>
          /\ epoch = ckpt["epoch"]
          /\ \A k \in CollabSet : collab[k] = ckpt[k]
    /\ role \in Loaded \cup {"captured"} =>
          /\ before.epoch = ckpt["epoch"]
          /\ IsPrefix(trace, FitTrace(ckpt["epoch"], num_epochs, validate_every, num_batches))
          /\ Count("on_epoch_start") > 0 => ArgsOf("on_epoch_start")[1] = ckpt["epoch"] + 1
          /\ pc = "done" =>
                /\ trace = FitTrace(ckpt["epoch"], num_epochs, validate_every, num_batches)
                /\ epoch = ckpt["epoch"] + num_epochs

C10_Witness ==
    /\ pc = "done"
    /\ role = "loaded_fresh"
    /\ ckpt # NoCkpt
    /\ ckpt["epoch"] = 1
    /\ num_epochs = 2
    /\ validate_every = 2
    /\ ArgsOf("on_epoch_start") = <<2, 3>>
    /\ ArgsOf("on_epoch_validation_start") = <<3>>

\* C11: load_state_dict assigns the epoch counter last: a call in which the
\* restore of some collaborator (model, optimizer, value_store,
\* train_evaluator, val_evaluator, callback) fails leaves the counter at its
\* value before the call, with the collaborators before the failing one
\* restored and the others untouched; the counter takes the mapping's epoch
\* only in a call that restored every collaborator.
C11_EpochRestoredLast ==
    [][/\ (pc = "idle" /\ synced' = "load_failed") =>
             /\ epoch' = epoch
             /\ \E fail \in 1..Len(CollabKeys) : collab' = Restored(collab, ckpt, fail)
       /\ (pc = "idle" /\ pc' = "idle" /\ ckpt # NoCkpt /\ epoch' # epoch /\ epoch' # -1) =>
             /\ epoch' = ckpt["epoch"]
             /\ \A k \in CollabSet : collab'[k] = ckpt[k]]_vars

C11_Witness ==
    /\ synced = "load_failed"
    /\ ckpt # NoCkpt
    /\ epoch # ckpt["epoch"]
    /\ collab["model"] = ckpt["model"]
    /\ collab["value_store"] = ckpt["value_store"]
    /\ collab["train_evaluator"] # ckpt["train_evaluator"]
    /\ collab["callback"] # ckpt["callback"]

\* C12: once a call made inside the try block (a callback event,
\* batch_update, an evaluator call) has raised the stop signal, the fit call
\* is in its except / finally / closing part and every further call it makes
\* is on_exception or on_fit_end: no batch_update, no evaluator call and no
\* loop lifecycle event follows.
C12_StopHonouredAtOnce ==
    [][(FirstRaiseInLoop(StopFitIteration) /\ pc # "done") =>
          /\ pc \in {"except", "finally", "tracked_values", "on_fit_end"}
          /\ \/ trace' = trace
             \/ /\ Len(trace') = Len(trace) + 1
                /\ SubSeq(trace', 1, Len(trace)) = trace
                /\ Last(trace')[1] \in {"on_exception", "on_fit_end"}
          /\ UNCHANGED <<epoch, i, batch_num>>]_vars

C12_Witness ==
    /\ pc = "done"
    /\ OnlyRaise("batch_update", StopFitIteration)
    /\ Last(ArgsOf("batch_update")) = 0
    /\ num_batches = 2
    /\ i = 1
    /\ num_epochs = 3
    /\ LastTwo = << <<"on_exception", epoch>>, <<"on_fit_end", 1>> >>
    /\ Len(SelectSeq(trace, LAMBDA ev : ev[1] \in LoopCalls)) = Len(trace) - 2

\* C15: at every batch_update call (and every other call of the training
\* phase) the model is in train mode, whatever its mode before the fit call
\* and also in an epoch that follows a validation phase; at every call of
\* the validation evaluator's evaluate (and every other call of the
\* validation phase after its start) the model is in evaluation mode.
\* Callbacks and evaluators are taken not to change the mode themselves.
C15_PhaseModes ==
    /\ pc = "batch_update" => training
    /\ pc \in {"train_evaluator.epoch_start", "batch_loop", "on_train_batch_start",
               "evaluate_batch", "on_train_batch_end", "train_evaluator.epoch_end",
               "on_epoch_train_end"} => training
    /\ pc = "evaluate" => ~training
    /\ pc \in {"val_evaluator.epoch_start", "val_evaluator.epoch_end",
               "on_epoch_validation_end"} => ~training

C15_Witness ==
    /\ pc = "batch_update"
    /\ training
    /\ ~before.training
    /\ Count("val_evaluator.evaluate") = 1
    /\ Count("batch_update") = 2
    /\ Count("on_epoch_start") = 2

\* C16: when on_fit_end is called (after normal completion or a graceful
\* stop, and in no other case), the FitOutput it is given has both its train
\* and its validation tracked values filled in and carries the stop signal
\* if there was one, the model is back in the mode it had before the call,
\* and that FitOutput, unchanged, is what fit then returns.
C16_FitEndOutput ==
    /\ pc = "on_fit_end" =>
          /\ output.train_tracked_values
          /\ output.val_tracked_values
          /\ training = before.training
          /\ exc = None
          /\ output.exception = (IF raises = <<>> THEN None ELSE StopFitIteration)
          /\ raises # <<>> => FirstRaiseInLoop(StopFitIteration) /\ Len(raises) = 1
    /\ Count("on_fit_end") > 0 =>
          /\ pc = "done"
          /\ Count("on_fit_end") = 1
          /\ output.train_tracked_values
          /\ output.val_tracked_values
          /\ training = before.training
          /\ result.kind = "returned" => result.value = output.exception
          /\ result.kind = "returned" <=> (raises = <<>> \/ Last(raises)[1] # "on_fit_end")
    /\ (pc = "done" /\ result.kind = "returned") => Count("on_fit_end") = 1

C16_Witness ==
    /\ pc = "done"
    /\ result = [kind |-> "returned", value |-> StopFitIteration]
    /\ OnlyRaise("on_epoch_validation_end", StopFitIteration)
    /\ ~before.training
    /\ Last(trace)[1] = "on_fit_end"
    /\ output = [exception |-> StopFitIteration, train_tracked_values |-> TRUE,
                 val_tracked_values |-> TRUE]

\* The calls that belong to an epoch iteration.
EpochLoopCalls == LoopCalls \ {"on_fit_start"}
\* C17: the epochs_run argument of on_fit_end is the epoch counter at the
\* end of the call minus the counter at its start, which is the number of
\* increments of the counter and of on_epoch_start calls in this fit call:
\* num_epochs when nothing raised, 0 when on_fit_start raised the stop
\* signal, and k + 1 after a graceful stop inside the iteration of index k
\* (counted from 0), an iteration whose on_epoch_end may never have been
\* called.
C17_EpochsRun ==
    Count("on_fit_end") = 1 =>
        LET epochs_run == Last(trace)[2]
        IN  /\ Last(trace)[1] = "on_fit_end"
            /\ epochs_run = epoch - before.epoch
            /\ epochs_run = Count("on_epoch_start")
            /\ epochs_run = i
            /\ raises = <<>> \/ raises[1][1] = "on_fit_end" => epochs_run = num_epochs
            /\ FirstRaiseInLoop(StopFitIteration) =>
                  /\ raises[1][1] = "on_fit_start" => epochs_run = 0
                  /\ raises[1][1] \in EpochLoopCalls =>
                        /\ epochs_run = (i - 1) + 1
                        /\ epochs_run >= 1
                        /\ epochs_run <= num_epochs
                        /\ Count("on_epoch_end") \in {epochs_run - 1, epochs_run}
                        /\ raises[1][1] # "on_epoch_end" => Count("on_epoch_end") = epochs_run - 1

C17_Witness ==
    /\ pc = "done"
    /\ OnlyRaise("train_evaluator.evaluate_batch", StopFitIteration)
    /\ before.epoch = 0
    /\ num_epochs = 3
    /\ Last(trace) = <<"on_fit_end", 2>>
    /\ Count("on_epoch_end") = 1
    /\ epoch = 2

\* The start / end pairs of calls, each with the calls made strictly between
\* its start and its end.
TrainBatchInner == {"batch_update", "train_evaluator.evaluate_batch"}
TrainEvaluatorInner ==
    {"on_train_batch_start", "on_train_batch_end"} \cup TrainBatchInner
EpochTrainInner ==
    {"train_evaluator.epoch_start", "train_evaluator.epoch_end"} \cup TrainEvaluatorInner
ValEvaluatorInner == {"val_evaluator.evaluate"}
EpochValidationInner ==
    {"val_evaluator.epoch_start", "val_evaluator.epoch_end"} \cup ValEvaluatorInner
EpochInner ==
    {"on_epoch_train_start", "on_epoch_train_end", "on_epoch_validation_start",
     "on_epoch_validation_end"} \cup EpochTrainInner \cup EpochValidationInner
Brackets ==
    {[start |-> "on_epoch_start", end |-> "on_epoch_end", inner |-> EpochInner],
     [start |-> "on_train_batch_start", end |-> "on_train_batch_end",
      inner |-> TrainBatchInner],
     [start |-> "on_epoch_train_start", end |-> "on_epoch_train_end",
      inner |-> EpochTrainInner],
     [start |-> "on_epoch_validation_start", end |-> "on_epoch_validation_end",
      inner |-> EpochValidationInner],
     [start |-> "train_evaluator.epoch_start", end |-> "train_evaluator.epoch_end",
      inner |-> TrainEvaluatorInner],
     [start |-> "val_evaluator.epoch_start", end |-> "val_evaluator.epoch_end",
      inner |-> ValEvaluatorInner]}
CountIn(s, name) == Len(SelectSeq(s, LAMBDA ev : ev[1] = name))
\* In the calls s every pair is bracketed: as many ends as starts, or one
\* start more; a pair is open exactly from its start call to the call before
\* its end call.
Bracketed(s) ==
    LET last == Last(SelectSeq(s, LAMBDA ev : ev[1] \in LoopCalls))[1]
    IN  \A b \in Brackets :
            LET starts == CountIn(s, b.start)
                ends == CountIn(s, b.end)
            IN  /\ ends <= starts
                /\ starts <= ends + 1
                /\ s # <<>> => (starts = ends + 1 <=> last \in {b.start} \cup b.inner)
\* C18: in every state of a fit call the start and end calls of each pair
\* (on_epoch, on_train_batch, on_epoch_train, on_epoch_validation, the two
\* evaluators' epoch_start / epoch_end) are bracketed, count(end) <=
\* count(start) <= count(end) + 1; and once a call has raised, no start and
\* no end call of any pair is made in that fit call, so a pair open at the
\* raise stays open.
C18_Bracketed ==
    [][/\ Bracketed(trace')
       /\ (raises # <<>> /\ pc # "done") =>
             \A b \in Brackets :
                 /\ CountIn(trace', b.start) = CountIn(trace, b.start)
                 /\ CountIn(trace', b.end) = CountIn(trace, b.end)]_vars

C18_Witness ==
    /\ pc = "done"
    /\ OnlyRaise("batch_update", "ErrorA")
    /\ Count("on_epoch_start") = 2
    /\ Count("on_epoch_end") = 1
    /\ Count("on_train_batch_start") = 3
    /\ Count("on_train_batch_end") = 2
    /\ Count("on_epoch_train_end") = 1
    /\ Count("train_evaluator.epoch_end") = 1
    /\ Count("val_evaluator.epoch_end") = 1
    /\ Last(trace)[1] = "on_exception"

\* C19: fit never lowers the epoch counter: a step of a fit call leaves it
\* alone or raises it by one (at the top of an iteration), and between fit
\* calls it does not move, so over any sequence of fit calls it never goes
\* down. A fit call that ended by a graceful stop or by an exception inside
\* epoch e leaves the counter at e, and the next fit call starts from there:
\* the epochs a call runs are before.epoch + 1, before.epoch + 2, ... up to
\* the counter (on_epoch_start is the call that follows each increment), so
\* the interrupted epoch is not run again.
C19_EpochNeverLowered ==
    [][/\ epoch' >= epoch
       /\ epoch' \in {epoch, epoch + 1}
       /\ epoch' # epoch => (pc = "epoch_loop" /\ pc' = "on_epoch_start")
       /\ pc' = "on_fit_start" => (before'.epoch = epoch /\ start_epoch' = epoch)
       /\ pc' # "idle" =>
             /\ ArgsOf("on_epoch_start")' =
                   Range(before'.epoch + 1,
                         IF pc' = "on_epoch_start" THEN epoch' - 1 ELSE epoch')
             /\ (raises' # <<>> /\ raises'[1][1] \in EpochLoopCalls) =>
                   /\ epoch' = Last(ArgsOf("on_epoch_start")')
                   /\ epoch' > before'.epoch]_vars

C19_Witness ==
    /\ pc = "done"
    /\ result = [kind |-> "raised", value |-> "ErrorA"]
    /\ OnlyRaise("on_epoch_train_end", "ErrorA")
    /\ before.epoch = 1
    /\ num_epochs = 2
    /\ ArgsOf("on_epoch_start") = <<2>>
    /\ Count("on_epoch_end") = 0
    /\ epoch = 2

\* C13: the composite invokes its children in insertion order and stops at
\* the first whose handler raises: with children <<A, B>>, when A's
\* on_epoch_start raises, B's is not invoked for that event, and what the
\* Trainer sees raised by on_epoch_start is A's exception itself, which it
\* passes to on_exception and then treats as a graceful stop (the stop
\* signal: fit returns with it recorded) or lets reach the caller (any other
\* exception); B is invoked, after A, exactly when A returned.
C13_ComposeNoIsolation ==
    /\ \A k \in 1..Len(dispatched) :
          /\ k <= Len(Children)
          /\ dispatched[k][1] = Children[k]
          /\ k < Len(dispatched) => dispatched[k][2] = Returns
    /\ pc = "train" =>
          dispatched = [k \in 1..Len(Children) |-> <<Children[k], Returns>>]
    /\ (raises # <<>> /\ raises[1][1] = "on_epoch_start") =>
          /\ dispatched # <<>>
          /\ Last(dispatched)[2] = raises[1][2]
          /\ dispatched[1][2] # Returns => dispatched = << <<"A", raises[1][2]>> >>
          /\ pc \in {"except", "finally", "tracked_values", "on_fit_end", "done"}
          /\ pc = "except" => exc = raises[1][2]
          /\ pc # "except" => handled = <<raises[1][2]>>
          /\ Last(SelectSeq(trace, LAMBDA ev : ev[1] \in LoopCalls)) = <<"on_epoch_start", epoch>>
          /\ (pc = "done" /\ Len(raises) = 1) =>
                result = IF raises[1][2] = StopFitIteration
                         THEN [kind |-> "returned", value |-> StopFitIteration]
                         ELSE [kind |-> "raised", value |-> raises[1][2]]

C13_Witness ==
    /\ pc = "done"
    /\ dispatched = << <<"A", "ErrorA">> >>
    /\ OnlyRaise("on_epoch_start", "ErrorA")
    /\ handled = <<"ErrorA">>
    /\ result = [kind |-> "raised", value |-> "ErrorA"]
    /\ Count("on_epoch_start") = 2

\* The update calls made with the name, in order.
UpdatesOf(ups, name) == SelectSeq(ups, LAMBDA u : u[1] = name)
\* C14: after any sequence of update calls the store holds exactly one
\* TrackedValue for each name updated (and none else), whose current_value
\* and epoch_last_updated are those of the most recent update of that name;
\* an update leaves every TrackedValue already held in its place with its
\* identity, so update("loss", 0.5, 3) and then update("loss", 0.7, 4) leave
\* one TrackedValue, the same object, with 0.7 and 4. The progress logger
\* then reports for epoch e exactly the names last updated in e, each with
\* its latest value.
C14_OneEntryPerName ==
    [][LET tv == tracked_values'
           ups == updates'
           updated == {ups[k][1] : k \in 1..Len(ups)}
       IN  /\ NamesIn(tv) = updated
           /\ Len(tv) = Cardinality(updated)
           /\ \A j, k \in 1..Len(tv) : (tv[j].name = tv[k].name \/ tv[j].id = tv[k].id) => j = k
           /\ \A k \in 1..Len(tv) :
                 /\ tv[k].current_value = Last(UpdatesOf(ups, tv[k].name))[2]
                 /\ tv[k].epoch_last_updated = Last(UpdatesOf(ups, tv[k].name))[3]
           /\ Len(tracked_values) <= Len(tv)
           /\ \A k \in 1..Len(tracked_values) :
                 /\ tv[k].name = tracked_values[k].name
                 /\ tv[k].id = tracked_values[k].id
           /\ \A e \in Epochs :
                 LET names == {n \in updated : Last(UpdatesOf(ups, n))[3] = e}
                 IN  updated_other_tracked_values(tv, e) =
                        [n \in names |-> Last(UpdatesOf(ups, n))[2]]]_vars

C14_Witness ==
    /\ updates = << <<"loss", 5, 3>>, <<"loss", 7, 4>> >>
    /\ tracked_values = << [name |-> "loss", id |-> 1, current_value |-> 7,
                            epoch_last_updated |-> 4] >>
    /\ created = 1

RECURSIVE Sum(_)
Sum(s) == IF s = <<>> THEN 0 ELSE s[1] + Sum(SubSeq(s, 2, Len(s)))
\* C20: the optimizer has one state for all its groups, holding step and
\* square_avg, empty until the first step() call and initialised by it only;
\* every iteration of the loop over the parameter groups adds one to
\* state['step'], so after k step() calls that went through all g groups
\* state['step'] = k * g, which is k only when g = 1.
C20_StepPerGroup ==
    LET g == Len(param_groups)
        k == Len(steps)
        complete == \A j \in 1..k : steps[j] = g
    IN  /\ DOMAIN state = {} <=> k = 0
        /\ k > 0 =>
              /\ DOMAIN state = {"step", "square_avg"}
              /\ state.step = Sum(steps)
              /\ state.square_avg.mul_ = state.step
              /\ state.square_avg.add_ <= state.step
              /\ complete => state.step = k * g
              /\ (complete /\ state.step = k) => g = 1
              /\ (complete /\ g = 1) => state.step = k

C20_Witness ==
    /\ Len(param_groups) = 2
    /\ steps = <<2, 2, 2>>
    /\ state.step = 6
====
